---- MODULE Spec2Model ----
(***************************************************************************)
(* Model of LineStart, the line-prefix scanner of src/src/scanner.rs.      *)
(*                                                                         *)
(* Values of type usize are written in their two's complement reading: a   *)
(* negative integer -k stands for the wrapped value 2^64 - k.  Wrapping    *)
(* addition and subtraction of small values are then plain integer         *)
(* addition and subtraction, and ULe is the unsigned order.  Because 4     *)
(* divides 2^64, (2^64 - k) % 4 is the floor modulus (-k) % 4.             *)
(*                                                                         *)
(* Rust's integer overflow is build dependent: with overflow checks        *)
(* (debug profile) the operation panics, without them (release profile) it *)
(* wraps.  overflow_checks is the build's choice, fixed at Init.           *)
(***************************************************************************)
EXTENDS Integers, Sequences, FiniteSets, TLC

VARIABLES bytes, cur, tab_start, spaces_remaining, min_hrule_offset,
          overflow_checks, fault, last, prev, run_cols

vars == <<bytes, cur, tab_start, spaces_remaining, min_hrule_offset,
          overflow_checks, fault, last, prev, run_cols>>

----------------------------------------------------------------------------
(* Bytes that the source names. *)
SP == 32
TAB == 9
CR == 13
LF == 10
GT == 62
MINUS == 45
PLUS == 43
STAR == 42
ZERO == 48
RPAREN == 41
DOT == 46
LBRACKET == 91
RBRACKET == 93
LOWERX == 120
UPPERX == 88

TabStop == 4

(* Bounds of the model. *)
MaxLen == 1
MaxN == 3
MaxCur == 4
LoopFuel == 22

(* Bytes the inputs are drawn from: the bytes the scanner distinguishes    *)
(* and a digit.                                                            *)
Alphabet == {SP, TAB, LF, GT, MINUS, ZERO + 1, RPAREN,
             LBRACKET, LOWERX, RBRACKET}

(* Bytes scan_ch is called with. *)
ChArgs == {SP, TAB, GT, LBRACKET, RBRACKET}

RECURSIVE SeqsUpTo(_)
SeqsUpTo(k) ==
    IF k = 0 THEN {<<>>}
    ELSE LET shorter == SeqsUpTo(k - 1)
         IN  shorter \cup {Append(s, b) : s \in {t \in shorter : Len(t) = k - 1}, b \in Alphabet}

(* The inputs the specification's testable properties name. *)
Examples ==
    { <<GT>>,
      <<SP, SP, SP, GT, SP>>,
      <<SP, SP, SP, SP, GT, SP>>,
      <<MINUS, SP, LOWERX>>,
      <<ZERO + 1, ZERO + 2, RPAREN, SP, LOWERX>>,
      <<ZERO + 1, ZERO + 2, LOWERX>>,
      <<LBRACKET, LOWERX, RBRACKET>>,
      <<LBRACKET, LOWERX, RBRACKET, LOWERX + 1>>,
      <<TAB>>,
      <<GT, LF>>,
      <<MINUS, LF>> }

(* Lines in which a tab is followed by further bytes. *)
TabLines == { <<TAB, LOWERX, TAB>>, <<TAB, TAB, TAB>> }

Inputs == SeqsUpTo(MaxLen) \cup Examples \cup TabLines

----------------------------------------------------------------------------
(* The scanner's fields as one value (what Clone copies). *)
Self == [cur |-> cur, tab_start |-> tab_start,
         spaces_remaining |-> spaces_remaining,
         min_hrule_offset |-> min_hrule_offset]

Min(a, b) == IF a <= b THEN a ELSE b

(* Unsigned order on usize values in two's complement reading. *)
ULe(a, b) == IF (a >= 0) = (b >= 0) THEN a <= b ELSE a >= 0

(* Option<u8>: <<>> is None, <<b>> is Some(b). *)
HasNext(s) == s.cur < Len(bytes)

Peek(s) == IF Len(bytes) = 0 THEN <<>> ELSE <<bytes[Len(bytes)]>>

IsAtEol(s) == Peek(s) = <<>> \/ Peek(s) = <<CR>> \/ Peek(s) = <<LF>>

IsDigit(b) == b >= ZERO /\ b <= ZERO + 9

----------------------------------------------------------------------------
(* Outcome of one call: the scanner it leaves, how the call ended ("ok",   *)
(* "panic" or "hang"), the value returned (<<>> for unit or None), the     *)
(* columns the call charged against its request (scan_space only), and the *)
(* scanner a recognizer's closure left before try_scan decided.            *)
Outcome(s, out, ret, cols) ==
    [s |-> s, out |-> out, ret |-> ret, cols |-> cols, mid |-> s]

(* next: indexes bytes at cur (panics past the end), then cur += 1. *)
NextByte(s) ==
    IF s.cur >= Len(bytes) THEN Outcome(s, "panic", <<>>, 0)
    ELSE Outcome([s EXCEPT !.cur = @ + 1], "ok", <<bytes[s.cur + 1]>>, 0)

(* Number of leading space/tab bytes of bytes[from..] (from is 0-based). *)
RECURSIVE CountSpaces(_)
CountSpaces(from) ==
    IF from < Len(bytes) /\ bytes[from + 1] \in {SP, TAB}
    THEN 1 + CountSpaces(from + 1)
    ELSE 0

(* skip_spaces: clears spaces_remaining, then slices bytes[cur..], which   *)
(* panics when cur is past the end.                                        *)
SkipSpaces(s) ==
    LET s1 == [s EXCEPT !.spaces_remaining = 0]
    IN  IF s1.cur > Len(bytes) THEN Outcome(s1, "panic", <<>>, 0)
        ELSE Outcome([s1 EXCEPT !.cur = @ + CountSpaces(s1.cur)], "ok", <<>>, 0)

(* The loop of scan_space with a tab that drops its unused columns. *)
RECURSIVE ScanSpaceLoopNoCarry(_, _)
ScanSpaceLoopNoCarry(s, n) ==
    IF ~(n > 0) THEN [s |-> s, n |-> n, out |-> "ok"]
    ELSE IF Peek(s) = <<SP>>
    THEN ScanSpaceLoopNoCarry([s EXCEPT !.cur = @ + 1], n - 1)
    ELSE IF Peek(s) = <<TAB>>
    THEN LET d == s.cur - s.tab_start
         IN  IF d < 0 /\ overflow_checks
             THEN [s |-> s, n |-> n, out |-> "panic"]
             ELSE LET spaces == TabStop - (d % TabStop)
                      x == Min(n, spaces)
                      s1 == [s EXCEPT !.spaces_remaining = 0]
                      s2 == [s1 EXCEPT !.cur = @ + 1]
                      s3 == [s2 EXCEPT !.tab_start = @ + s2.cur]
                  IN  ScanSpaceLoopNoCarry(s3, n - x)
    ELSE [s |-> s, n |-> n, out |-> "ok"]

(* The loop of scan_space with a tab that stores its whole width as        *)
(* pending, not the part the request left unused.                          *)
RECURSIVE ScanSpaceLoopKeepAll(_, _)
ScanSpaceLoopKeepAll(s, n) ==
    IF ~(n > 0) THEN [s |-> s, n |-> n, out |-> "ok"]
    ELSE IF Peek(s) = <<SP>>
    THEN ScanSpaceLoopKeepAll([s EXCEPT !.cur = @ + 1], n - 1)
    ELSE IF Peek(s) = <<TAB>>
    THEN LET d == s.cur - s.tab_start
         IN  IF d < 0 /\ overflow_checks
             THEN [s |-> s, n |-> n, out |-> "panic"]
             ELSE LET spaces == TabStop - (d % TabStop)
                      x == Min(n, spaces)
                      s1 == [s EXCEPT !.spaces_remaining = spaces]
                      s2 == [s1 EXCEPT !.cur = @ + 1]
                      s3 == [s2 EXCEPT !.tab_start = @ + s2.cur]
                  IN  ScanSpaceLoopKeepAll(s3, n - x)
    ELSE [s |-> s, n |-> n, out |-> "ok"]

(* The loop of scan_space with a tab whose byte is passed only when all    *)
(* its columns are charged.                                                *)
RECURSIVE ScanSpaceLoopTabStays(_, _)
ScanSpaceLoopTabStays(s, n) ==
    IF ~(n > 0) THEN [s |-> s, n |-> n, out |-> "ok"]
    ELSE IF Peek(s) = <<SP>>
    THEN ScanSpaceLoopTabStays([s EXCEPT !.cur = @ + 1], n - 1)
    ELSE IF Peek(s) = <<TAB>>
    THEN LET d == s.cur - s.tab_start
         IN  IF d < 0 /\ overflow_checks
             THEN [s |-> s, n |-> n, out |-> "panic"]
             ELSE LET spaces == TabStop - (d % TabStop)
                      x == Min(n, spaces)
                      s1 == [s EXCEPT !.spaces_remaining = spaces - x]
                      s2 == [s1 EXCEPT !.cur = IF x = spaces THEN @ + 1 ELSE @]
                      s3 == [s2 EXCEPT !.tab_start = IF x = spaces
                                                     THEN @ + s2.cur ELSE @]
                  IN  ScanSpaceLoopTabStays(s3, n - x)
    ELSE [s |-> s, n |-> n, out |-> "ok"]

(* The while loop of scan_space; n is the number of columns still wanted. *)
RECURSIVE ScanSpaceLoop(_, _)
ScanSpaceLoop(s, n) ==
    IF ~(n > 0) THEN [s |-> s, n |-> n, out |-> "ok"]
    ELSE IF Peek(s) = <<SP>>
    THEN ScanSpaceLoop([s EXCEPT !.cur = @ + 1], n - 1)
    ELSE IF Peek(s) = <<TAB>>
    THEN LET d == s.cur - s.tab_start
         IN  IF d < 0 /\ overflow_checks
             THEN [s |-> s, n |-> n, out |-> "panic"]
             ELSE LET spaces == TabStop - (d % TabStop)
                      x == Min(n, spaces)
                      s1 == [s EXCEPT !.spaces_remaining = spaces - x]
                      s2 == [s1 EXCEPT !.cur = @ + 1]
                      s3 == [s2 EXCEPT !.tab_start = @ + s2.cur]
                  IN  ScanSpaceLoop(s3, n - x)
    ELSE [s |-> s, n |-> n, out |-> "ok"]

(* scan_space that does not serve the request from the pending columns. *)
ScanSpaceNoPending(s, n0) ==
    LET r == ScanSpaceLoop(s, n0)
        n_save == 0
    IN  IF r.out = "panic" THEN Outcome(r.s, "panic", <<>>, n0 - r.n)
        ELSE IF n_save - r.n < 0 /\ overflow_checks
        THEN Outcome(r.s, "panic", <<>>, n0 - r.n)
        ELSE Outcome(r.s, "ok", <<n_save - r.n>>, n0 - r.n)

(* scan_space: first the pending columns, then the loop; returns           *)
(* n_save - n with n_save = 0, which underflows whenever n > 0 is left.    *)
ScanSpace(s, n0) ==
    LET x == Min(s.spaces_remaining, n0)
        r == ScanSpaceLoop([s EXCEPT !.spaces_remaining = @ - x], n0 - x)
        n_save == 0
    IN  IF r.out = "panic" THEN Outcome(r.s, "panic", <<>>, n0 - r.n)
        ELSE IF n_save - r.n < 0 /\ overflow_checks
        THEN Outcome(r.s, "panic", <<>>, n0 - r.n)
        ELSE Outcome(r.s, "ok", <<n_save - r.n>>, n0 - r.n)

(* scan_ch: compares peek() with ch. *)
ScanCh(s, ch) ==
    IF Peek(s) = <<ch>>
    THEN Outcome([s EXCEPT !.cur = @ + 1], "ok", <<TRUE>>, 0)
    ELSE Outcome(s, "ok", <<FALSE>>, 0)

----------------------------------------------------------------------------
(* A closure's result: res is "Ok" or "Err", val the Ok value. *)
Closure(s, out, res, val) ==
    [s |-> s, out |-> out, res |-> res, val |-> val]

(* try_scan that keeps the closure's state on Err as well. *)
TryScanNoRestore(s, c) ==
    IF c.out # "ok" THEN [Outcome(c.s, c.out, <<>>, 0) EXCEPT !.mid = c.s]
    ELSE IF c.res = "Ok" THEN [Outcome(c.s, "ok", c.val, 0) EXCEPT !.mid = c.s]
    ELSE [Outcome(c.s, "ok", <<>>, 0) EXCEPT !.mid = c.s]

(* try_scan that goes back to the start of the line on Err. *)
TryScanResetToNew(s, c) ==
    IF c.out # "ok" THEN [Outcome(c.s, c.out, <<>>, 0) EXCEPT !.mid = c.s]
    ELSE IF c.res = "Ok" THEN [Outcome(c.s, "ok", c.val, 0) EXCEPT !.mid = c.s]
    ELSE [Outcome([s EXCEPT !.cur = 0, !.tab_start = 0, !.spaces_remaining = 0],
                  "ok", <<>>, 0) EXCEPT !.mid = c.s]

(* try_scan: clone, run the closure, keep its state on Ok, restore the     *)
(* clone on Err.  A panic or a hang inside the closure never returns, so   *)
(* nothing is restored.                                                    *)
TryScan(s, c) ==
    IF c.out # "ok" THEN [Outcome(c.s, c.out, <<>>, 0) EXCEPT !.mid = c.s]
    ELSE IF c.res = "Ok" THEN [Outcome(c.s, "ok", c.val, 0) EXCEPT !.mid = c.s]
    ELSE [Outcome(s, "ok", <<>>, 0) EXCEPT !.mid = c.s]

(* The closure of scan_blockquote_marker. *)
BlockquoteBody(s) ==
    LET r1 == ScanSpace(s, 3)
        r2 == ScanCh(r1.s, GT)
        r3 == ScanSpace(r2.s, 1)
    IN  IF r1.out # "ok" THEN Closure(r1.s, r1.out, "Err", <<>>)
        ELSE IF r2.ret = <<TRUE>>
        THEN IF r3.out # "ok" THEN Closure(r3.s, r3.out, "Err", <<>>)
             ELSE Closure(r3.s, "ok", "Ok", <<TRUE>>)
        ELSE Closure(r2.s, "ok", "Err", <<>>)

(* scan_blockquote_marker: unwrap_or(false). *)
ScanBlockquoteMarker(s) ==
    LET r == TryScan(s, BlockquoteBody(s))
    IN  IF r.out = "ok" /\ r.ret = <<>> THEN [r EXCEPT !.ret = <<FALSE>>] ELSE r

----------------------------------------------------------------------------
(* Values of type u64 (the ordinal of an ordered list marker) are decimal  *)
(* numerals, most significant digit first, so that the 64-bit range is     *)
(* exact: <<1, 2>> is 12.                                                  *)
U64Max == <<1, 8, 4, 4, 6, 7, 4, 4, 0, 7, 3, 7, 0, 9, 5, 5, 1, 6, 1, 5>>
TwoTo64 == <<1, 8, 4, 4, 6, 7, 4, 4, 0, 7, 3, 7, 0, 9, 5, 5, 1, 6, 1, 6>>

(* The numeral without its leading zeros. *)
Strip(v) ==
    LET nz == {i \in 1..Len(v) : v[i] # 0}
    IN  IF nz = {} THEN <<0>>
        ELSE SubSeq(v, CHOOSE i \in nz : \A j \in nz : i <= j, Len(v))

(* The numeral with leading zeros up to k digits. *)
Pad(v, k) ==
    IF Len(v) >= k THEN v
    ELSE [i \in 1..k |-> IF i <= k - Len(v) THEN 0 ELSE v[i - (k - Len(v))]]

(* a < b on the digits from position i on, for numerals of equal length. *)
SuffixLess(a, b, i) ==
    \E j \in i..Len(a) : a[j] < b[j] /\ \A m \in i..(j - 1) : a[m] = b[m]

NumLe(a, b) ==
    LET k == IF Len(a) >= Len(b) THEN Len(a) ELSE Len(b)
    IN  ~SuffixLess(Pad(b, k), Pad(a, k), 1)

(* a - b for a >= b: digit by digit, borrowing when the lower digits of a  *)
(* are less than those of b.                                               *)
NumSub(a, b) ==
    LET y == Pad(b, Len(a))
        borrow(i) == IF SuffixLess(a, y, i + 1) THEN 1 ELSE 0
    IN  Strip([i \in 1..Len(a) |-> (a[i] - y[i] - borrow(i)) % 10])

(* v modulo 2^64. *)
RECURSIVE WrapU64(_)
WrapU64(v) == IF NumLe(v, U64Max) THEN Strip(v) ELSE WrapU64(NumSub(v, TwoTo64))

(* The while-let loop of the ordered branch.  It leaves only through a     *)
(* byte that is not a digit, or through the overflow panic of              *)
(* val * 10 + digit; peek() does not depend on cur, so a digit once is a   *)
(* digit in every iteration, and a loop that is still running when the     *)
(* fuel is spent runs for ever.                                            *)
RECURSIVE OrderedLoop(_, _, _)
OrderedLoop(s, val, fuel) ==
    IF fuel = 0 THEN Closure(s, "hang", "Err", <<>>)
    ELSE IF Peek(s) = <<>> THEN Closure(s, "ok", "Err", <<>>)
    ELSE LET ch == Peek(s)[1]
             s1 == [s EXCEPT !.cur = @ + 1]
             nv == Strip(Append(val, ch - ZERO))
             r == ScanSpace(s1, 1)
         IN  IF IsDigit(ch)
             THEN IF ~NumLe(nv, U64Max) /\ overflow_checks
                  THEN Closure(s1, "panic", "Err", <<>>)
                  ELSE OrderedLoop(s1, WrapU64(nv), fuel - 1)
             ELSE IF ch \in {RPAREN, DOT}
             THEN IF r.out # "ok" THEN Closure(r.s, r.out, "Err", <<>>)
                  ELSE IF r.ret = <<1>> \/ IsAtEol(r.s)
                  THEN Closure(r.s, "ok", "Ok", <<ch, val>>)
                  ELSE Closure(r.s, "ok", "Err", <<>>)
             ELSE Closure(s1, "ok", "Err", <<>>)

(* The closure of scan_list_marker. *)
ListBody(s) ==
    LET r1 == ScanSpace(s, 3)
        p == Peek(r1.s)
        s2 == [r1.s EXCEPT !.cur = @ + 1]
        r3 == ScanSpace(s2, 1)
    IN  IF r1.out # "ok" THEN Closure(r1.s, r1.out, "Err", <<>>)
        ELSE IF p # <<>> /\ p[1] \in {MINUS, PLUS, STAR}
        THEN IF r3.out # "ok" THEN Closure(r3.s, r3.out, "Err", <<>>)
             ELSE IF r3.ret = <<1>> \/ IsAtEol(r3.s)
             THEN Closure(r3.s, "ok", "Ok", <<p[1], <<0>>>>)
             ELSE Closure(r3.s, "ok", "Err", <<>>)
        ELSE IF p # <<>> /\ IsDigit(p[1])
        THEN OrderedLoop(s2, <<p[1] - ZERO>>, LoopFuel)
        ELSE Closure(r1.s, "ok", "Err", <<>>)

(* scan_list_marker: .ok() *)
ScanListMarker(s) == TryScan(s, ListBody(s))

(* The closure of scan_task_list_marker. *)
TaskBody(s) ==
    LET r1 == ScanSpace(s, 3)
        r2 == ScanCh(r1.s, LBRACKET)
        p == Peek(r2.s)
        s3 == [r2.s EXCEPT !.cur = @ + 1]
        r4 == ScanCh(s3, RBRACKET)
        r5 == ScanSpace(r4.s, 1)
    IN  IF r1.out # "ok" THEN Closure(r1.s, r1.out, "Err", <<>>)
        ELSE IF r2.ret # <<TRUE>> THEN Closure(r2.s, "ok", "Err", <<>>)
        ELSE IF p \notin {<<SP>>, <<LOWERX>>, <<UPPERX>>}
        THEN Closure(r2.s, "ok", "Err", <<>>)
        ELSE IF r4.ret # <<TRUE>> THEN Closure(r4.s, "ok", "Err", <<>>)
        ELSE IF r5.out # "ok" THEN Closure(r5.s, r5.out, "Err", <<>>)
        ELSE IF r5.ret = <<1>> \/ IsAtEol(r5.s)
        THEN Closure(r5.s, "ok", "Ok", <<p # <<SP>>>>)
        ELSE Closure(r5.s, "ok", "Err", <<>>)

(* scan_task_list_marker: .ok() *)
ScanTaskListMarker(s) == TryScan(s, TaskBody(s))

----------------------------------------------------------------------------
(* new: the scanner at offset 0. *)
New == [cur |-> 0, tab_start |-> 0, spaces_remaining |-> 0,
        min_hrule_offset |-> 0]

NoCall == [op |-> "none", arg |-> 0, pre |-> New, cols |-> 0]

(* last records the most recent call: its name and argument, the scanner   *)
(* before it, the scanner its closure left (recognizers), what it returned *)
(* and the columns it charged.  prev records the call before it when that  *)
(* was a scan_space that returned.  run_cols is the sum of the columns     *)
(* charged since new() as long as every call has been a scan_space, and -1 *)
(* once another call was made.                                             *)
Init ==
    /\ bytes \in Inputs
    /\ overflow_checks \in BOOLEAN
    /\ cur = New.cur
    /\ tab_start = New.tab_start
    /\ spaces_remaining = New.spaces_remaining
    /\ min_hrule_offset = New.min_hrule_offset
    /\ fault = "none"
    /\ last = [op |-> "new", arg |-> 0, pre |-> New, mid |-> New,
               ret |-> <<>>, cols |-> 0]
    /\ prev = NoCall
    /\ run_cols = 0

(* A call is made on a live scanner; MaxCur caps the growth of cur. *)
Callable == fault = "none" /\ cur <= MaxCur

Call(name, arg, r) ==
    /\ Callable
    /\ cur' = r.s.cur
    /\ tab_start' = r.s.tab_start
    /\ spaces_remaining' = r.s.spaces_remaining
    /\ min_hrule_offset' = r.s.min_hrule_offset
    /\ fault' = IF r.out = "ok" THEN "none" ELSE r.out
    /\ last' = [op |-> name, arg |-> arg, pre |-> Self, mid |-> r.mid,
                ret |-> r.ret, cols |-> r.cols]
    /\ prev' = IF last.op = "scan_space"
               THEN [op |-> last.op, arg |-> last.arg, pre |-> last.pre,
                     cols |-> last.cols]
               ELSE NoCall
    /\ run_cols' = IF name = "scan_space" /\ run_cols >= 0
                   THEN run_cols + r.cols
                   ELSE -1
    /\ UNCHANGED <<bytes, overflow_checks>>

CallHasNext == Call("has_next", 0, Outcome(Self, "ok", <<HasNext(Self)>>, 0))

CallPeek == Call("peek", 0, Outcome(Self, "ok", Peek(Self), 0))

(* next is only called when has_next() holds. *)
CallNext == HasNext(Self) /\ Call("next", 0, NextByte(Self))

CallIsAtEol == Call("is_at_eol", 0, Outcome(Self, "ok", <<IsAtEol(Self)>>, 0))

CallSkipSpaces == Call("skip_spaces", 0, SkipSpaces(Self))

CallScanSpace == \E n \in 0..MaxN : Call("scan_space", n, ScanSpace(Self, n))

CallScanCh == \E ch \in ChArgs : Call("scan_ch", ch, ScanCh(Self, ch))

CallScanBlockquoteMarker ==
    Call("scan_blockquote_marker", 0, ScanBlockquoteMarker(Self))

CallScanListMarker == Call("scan_list_marker", 0, ScanListMarker(Self))

CallScanTaskListMarker ==
    Call("scan_task_list_marker", 0, ScanTaskListMarker(Self))

Next ==
    \/ CallHasNext
    \/ CallPeek
    \/ CallNext
    \/ CallIsAtEol
    \/ CallSkipSpaces
    \/ CallScanSpace
    \/ CallScanCh
    \/ CallScanBlockquoteMarker
    \/ CallScanListMarker
    \/ CallScanTaskListMarker

Spec == Init /\ [][Next]_vars

----------------------------------------------------------------------------
(* Vocabulary of the properties. *)
Recognizers ==
    {"scan_blockquote_marker", "scan_list_marker", "scan_task_list_marker"}

Returned(op) == fault = "none" /\ last.op = op

NoMatch ==
    \/ Returned("scan_blockquote_marker") /\ last.ret = <<FALSE>>
    \/ Returned("scan_list_marker") /\ last.ret = <<>>
    \/ Returned("scan_task_list_marker") /\ last.ret = <<>>

Matched == fault = "none" /\ last.op \in Recognizers /\ ~NoMatch

(* The three fields the properties speak of. *)
Fields(s) == <<s.cur, s.spaces_remaining, s.tab_start>>

(* C1: when a marker recognizer reports no match, cur, spaces_remaining    *)
(* and tab_start are what they were before the call.                       *)
C1_Rollback == NoMatch => Fields(Self) = Fields(last.pre)

(* A recognizer reported no match after its closure had moved all three    *)
(* fields.                                                                 *)
C1_Witness ==
    /\ NoMatch
    /\ last.mid.cur # last.pre.cur
    /\ last.mid.spaces_remaining # last.pre.spaces_remaining
    /\ last.mid.tab_start # last.pre.tab_start

(* C2: when a marker recognizer reports a match, the closure's state is    *)
(* kept, cur is strictly greater than before the call and at most the      *)
(* length of bytes.                                                        *)
C2_CommitOnSuccess ==
    Matched => /\ Self = last.mid
               /\ cur > last.pre.cur
               /\ cur <= Len(bytes)

(* The call was made on the scanner as new(bytes) leaves it. *)
OnFresh(op) == Returned(op) /\ last.pre = New

(* Number of leading space bytes of bytes. *)
RECURSIVE LeadingSpaces(_)
LeadingSpaces(i) ==
    IF i < Len(bytes) /\ bytes[i + 1] = SP THEN 1 + LeadingSpaces(i + 1) ELSE 0

(* A tab in the leading whitespace reaches column 4 at least, so an indent *)
(* of at most 3 columns is at most 3 spaces.  Indent is that number of     *)
(* spaces and After(k) the k-th byte after the indent (<<>> past the end). *)
Indent == LeadingSpaces(0)

After(k) == IF Indent + k <= Len(bytes) THEN <<bytes[Indent + k]>> ELSE <<>>

(* One column of whitespace or end of line follows at After(k). *)
SpaceOrEol(k) == After(k) \in {<<>>, <<SP>>, <<TAB>>, <<CR>>, <<LF>>}

(* C3: on a fresh scanner scan_blockquote_marker matches exactly when at   *)
(* most 3 columns of leading whitespace are followed by '>'.               *)
C3_BlockquoteBoundary ==
    OnFresh("scan_blockquote_marker") =>
        (last.ret = <<TRUE>> <=> (Indent <= 3 /\ After(1) = <<GT>>))

(* C4: on a fresh scanner, with at most 3 columns of indent before one of  *)
(* '-', '+', '*', scan_list_marker returns (that byte, 0) when one column  *)
(* of whitespace or end of line follows, and no match otherwise.           *)
C4_BulletMarker ==
    (/\ OnFresh("scan_list_marker")
     /\ Indent <= 3
     /\ After(1) \in {<<MINUS>>, <<PLUS>>, <<STAR>>}) =>
        last.ret = IF SpaceOrEol(2) THEN <<After(1)[1], <<0>>>> ELSE <<>>

(* Length of the digit run that starts at After(1). *)
RECURSIVE DigitRun(_)
DigitRun(k) ==
    IF After(k + 1) # <<>> /\ IsDigit(After(k + 1)[1]) THEN 1 + DigitRun(k + 1)
    ELSE 0

(* The decimal numeral of the digit run. *)
RunValue == Strip([i \in 1..DigitRun(0) |-> bytes[Indent + i] - ZERO])

(* C5: on a fresh scanner, with at most 3 columns of indent before a run   *)
(* of digits, scan_list_marker returns (terminator, value of the run) when *)
(* the run is followed by '.' or ')' and then one column of whitespace or  *)
(* end of line, and no match for a run not terminated this way.            *)
C5_OrderedMarker ==
    (/\ OnFresh("scan_list_marker")
     /\ Indent <= 3
     /\ DigitRun(0) >= 1) =>
        last.ret = IF /\ After(DigitRun(0) + 1) \in {<<DOT>>, <<RPAREN>>}
                      /\ SpaceOrEol(DigitRun(0) + 2)
                   THEN <<After(DigitRun(0) + 1)[1], RunValue>>
                   ELSE <<>>

(* C6: on a fresh scanner scan_task_list_marker succeeds exactly when at   *)
(* most 3 columns of indent are followed by '[', then ' ' (false) or 'x'   *)
(* or 'X' (true), then ']', then one column of whitespace or end of line.  *)
C6_TaskMarker ==
    OnFresh("scan_task_list_marker") =>
        last.ret = IF /\ Indent <= 3
                      /\ After(1) = <<LBRACKET>>
                      /\ After(2) \in {<<SP>>, <<LOWERX>>, <<UPPERX>>}
                      /\ After(3) = <<RBRACKET>>
                      /\ SpaceOrEol(4)
                   THEN <<After(2) # <<SP>>>>
                   ELSE <<>>

(* The byte at cur is a space or a tab. *)
SpaceAhead == cur < Len(bytes) /\ bytes[cur + 1] \in {SP, TAB}

(* C7: scan_space(n) returns the number r of columns it consumed, with     *)
(* 0 <= r <= n, and r < n only if no pending column and no whitespace byte *)
(* is left in front of the cursor.                                         *)
C7_ScanSpaceResult ==
    Returned("scan_space") =>
        LET r == last.ret[1]
        IN  /\ r = last.cols
            /\ ULe(0, r) /\ ULe(r, last.arg)
            /\ (r # last.arg => spaces_remaining = 0 /\ ~SpaceAhead)

(* Two scan_space calls in a row, both returned. *)
TwoScans == Returned("scan_space") /\ prev.op = "scan_space"

(* C8: scan_space(a) followed at once by scan_space(b) consumes the same   *)
(* total of columns and ends with the same cur and spaces_remaining as one *)
(* scan_space(a + b) from the state before the first call.                 *)
C8_ScanAdditivity ==
    TwoScans =>
        LET one == ScanSpace(prev.pre, prev.arg + last.arg)
        IN  /\ one.out = "ok"
            /\ one.cols = prev.cols + last.cols
            /\ one.s.cur = cur
            /\ one.s.spaces_remaining = spaces_remaining

(* The second call was served partly from the columns the first left       *)
(* pending and partly from a further byte.                                 *)
C8_Witness ==
    /\ TwoScans
    /\ prev.arg > 0
    /\ last.pre.spaces_remaining > 0
    /\ last.arg > last.pre.spaces_remaining
    /\ cur > last.pre.cur

(* C9: on a fresh scanner over a single tab, scan_space(1) consumes 1      *)
(* column, moves cur by 1 and leaves spaces_remaining = 3; a following     *)
(* scan_space(3) consumes 3 columns, leaves cur where it was and           *)
(* spaces_remaining = 0.                                                   *)
C9_TabCarryOver ==
    /\ (/\ bytes = <<TAB>>
        /\ OnFresh("scan_space")
        /\ last.arg = 1) =>
            last.cols = 1 /\ cur = 1 /\ spaces_remaining = 3
    /\ (/\ bytes = <<TAB>>
        /\ TwoScans
        /\ prev.pre = New /\ prev.arg = 1
        /\ last.arg = 3) =>
            /\ prev.cols = 1
            /\ last.pre.cur = 1 /\ last.pre.spaces_remaining = 3
            /\ last.cols = 3 /\ cur = 1 /\ spaces_remaining = 0

(* scan_space(1) and then scan_space(3) have returned on the single tab. *)
C9_Witness ==
    /\ bytes = <<TAB>>
    /\ TwoScans
    /\ prev.pre = New /\ prev.arg = 1
    /\ last.arg = 3

(* C10: in every reachable state 0 <= cur <= length(bytes). *)
C10_CursorBounds == 0 <= cur /\ cur <= Len(bytes)

(* C11: in every reachable state spaces_remaining < 4. *)
C11_PendingBound == spaces_remaining < TabStop

(* A request of one column has left the other three of a tab pending. *)
C11_Witness ==
    /\ Returned("scan_space")
    /\ last.arg = 1
    /\ spaces_remaining = TabStop - 1

(* The byte at offset i of bytes, <<>> past the end. *)
ByteAt(i) == IF i >= 0 /\ i < Len(bytes) THEN <<bytes[i + 1]>> ELSE <<>>

(* C12: peek() returns the byte at index cur when cur < length(bytes) and  *)
(* none when cur = length(bytes), never a byte at another position.        *)
C12_PeekAtCursor == Returned("peek") => last.ret = ByteAt(cur)

(* C13: without a next() at the end of input, every call of peek,         *)
(* is_at_eol, skip_spaces, scan_space, scan_ch and the three recognizers   *)
(* completes without a runtime fault.                                      *)
C13_NoRuntimeFault == fault = "none"

(* C14: scan_ch(b) advances cur by one and returns true if the byte at cur *)
(* is b; otherwise it returns false and leaves cur, tab_start and          *)
(* spaces_remaining unchanged.                                             *)
C14_ScanChFrame ==
    Returned("scan_ch") =>
        IF ByteAt(last.pre.cur) = <<last.arg>>
        THEN /\ last.ret = <<TRUE>>
             /\ cur = last.pre.cur + 1
        ELSE /\ last.ret = <<FALSE>>
             /\ Fields(Self) = Fields(last.pre)

(* Width of the run of spaces and tabs that starts at offset i in column   *)
(* col: a space is one column, a tab reaches the next multiple of 4.       *)
RECURSIVE ExpandedWidth(_, _)
ExpandedWidth(i, col) ==
    IF ByteAt(i) = <<SP>> THEN ExpandedWidth(i + 1, col + 1)
    ELSE IF ByteAt(i) = <<TAB>>
    THEN ExpandedWidth(i + 1, col + TabStop - (col % TabStop))
    ELSE col

(* Number of bytes of the run of spaces and tabs at the start of bytes. *)
RECURSIVE RunLength(_)
RunLength(i) == IF ByteAt(i) \in {<<SP>>, <<TAB>>} THEN RunLength(i + 1) ELSE i

(* C15: when a sequence of scan_space calls from new() has exhausted the   *)
(* leading run of spaces and tabs, the columns it consumed in total are    *)
(* the tab-expanded width of the run.                                      *)
C15_TabStopExpansion ==
    (/\ Returned("scan_space")
     /\ run_cols >= 0
     /\ cur >= RunLength(0)
     /\ spaces_remaining = 0) =>
        run_cols = ExpandedWidth(0, 0)

(* C16: skip_spaces moves cur past the maximal run of space and tab bytes  *)
(* at cur (only such bytes are skipped, and afterwards cur is the length   *)
(* of bytes or the byte at cur is neither), sets spaces_remaining to 0 and *)
(* leaves tab_start unchanged.                                             *)
C16_SkipSpaces ==
    last.op = "skip_spaces" =>
        /\ fault = "none"
        /\ cur >= last.pre.cur
        /\ \A i \in last.pre.cur..(cur - 1) : ByteAt(i) \in {<<SP>>, <<TAB>>}
        /\ cur = Len(bytes) \/ ByteAt(cur) \notin {<<>>, <<SP>>, <<TAB>>}
        /\ spaces_remaining = 0
        /\ tab_start = last.pre.tab_start

(* C17: from one call to the next cur never decreases; inside a recognizer *)
(* that reports no match cur rises and then returns to its value at the    *)
(* start of that call.                                                     *)
C17_CursorMonotone ==
    [][/\ cur' >= cur
       /\ NoMatch' => (last'.mid.cur >= cur /\ cur' = cur)]_vars

(* A recognizer called past the start of the line moved cur forward and    *)
(* then reported no match.                                                 *)
C17_Witness ==
    /\ NoMatch
    /\ last.pre.cur > 0
    /\ last.mid.cur > last.pre.cur
    /\ cur = last.pre.cur

(* C18: tab_start <= cur in every reachable state, and tab_start = cur     *)
(* right after scan_space has consumed a tab byte.                         *)
C18_TabStartBound ==
    /\ tab_start <= cur
    /\ (/\ Returned("scan_space")
        /\ cur > last.pre.cur
        /\ ByteAt(cur - 1) = <<TAB>>) => tab_start = cur

(* C19: spaces_remaining > 0 implies cur > 0 and a tab at cur - 1. *)
C19_PendingFromLastTab ==
    spaces_remaining > 0 => cur > 0 /\ ByteAt(cur - 1) = <<TAB>>

(* C19 as amended: spaces_remaining > 0 implies cur > 0 and that           *)
(* scan_space has charged a tab (tab_start > 0); the byte at cur - 1 need  *)
(* not be that tab.                                                        *)
C19_PendingAfterTab ==
    spaces_remaining > 0 => cur > 0 /\ tab_start > 0

(* next() has consumed a byte that is not a tab while columns of an        *)
(* earlier tab were pending.                                               *)
C19_Witness ==
    /\ Returned("next")
    /\ last.ret # <<TAB>>
    /\ last.pre.spaces_remaining > 0
    /\ spaces_remaining > 0

====
